---------------------------- MODULE Spec2Model ----------------------------
(***************************************************************************)
(* Perfect Chords (src/src/lib.rs): the playback state machine that        *)
(* process() runs over the MidiMessage channel, the scale catalog and the  *)
(* default key mappings.                                                   *)
(*                                                                         *)
(* Conventions.                                                            *)
(*   Option<T>      None is << >>, Some(x) is <<x>>.                       *)
(*   HashMap<K, V>  a function whose DOMAIN is the set of keys present.    *)
(*   String         a sequence of atoms; an atom is either the white       *)
(*                  space " " or a maximal run of non-blank characters.    *)
(*   Vec<T>         a sequence.                                            *)
(***************************************************************************)
EXTENDS Integers, Sequences, FiniteSets, TLC

VARIABLES
    active_notes,     \* PerfectChords.active_notes : Vec<u8>
    octave,           \* state.octave : i8
    root_note,        \* state.root_note : String (one atom)
    scale_type,       \* state.scale_type : String (one atom)
    playing_chord,    \* state.playing_chord : Option<ChordId>
    inversion_chord,  \* state.inversion_chord : Option<ChordId>
    inversion_map,    \* state.inversion_map : HashMap<ChordId, u8>
    key_mappings,     \* state.key_mappings : HashMap<egui::Key, ChordId>
    playing_key,      \* state.playing_key : Option<egui::Key>
    message,          \* the message the last try_recv returned, as an Option
    emitted,          \* the NoteEvents sent to the host while folding `message`
    held,             \* host side: note number -> note-ons not yet switched off
    stray_off,        \* host side: a note-off arrived for a note that was not on
    overflow_checks,  \* build profile: TRUE when integer overflow panics
    panicked,         \* process() has panicked
    queue,            \* the crossbeam channel: messages sent and not yet received
    sent,             \* every message sender.send() was given, in order
    received,         \* every message try_recv() returned, in order
    pc,               \* "idle", or "draining" while a process() call is in its loop
    call,             \* bookkeeping of the current process() call
    ed,               \* the editor's GuiState
    ed_diatonics      \* the editor's `diatonics` of the last frame, as an Option

procVars == <<active_notes, octave, root_note, scale_type, playing_chord,
              inversion_chord, inversion_map, key_mappings, playing_key>>
hostVars == <<emitted, held, stray_off>>
chanVars == <<queue, sent, received, pc, call>>
edVars == <<ed, ed_diatonics>>
vars == <<procVars, message, hostVars, overflow_checks, panicked, chanVars, edVars>>

----------------------------------------------------------------------------
(* Option and HashMap helpers *)

None == << >>
Some(x) == <<x>>
Unwrap(opt) == opt[1]

EmptyMap == << >>
MapGet(map, k) == IF k \in DOMAIN map THEN Some(map[k]) ELSE None
MapInsert(map, k, v) == (k :> v) @@ map

----------------------------------------------------------------------------
(* Strings *)

Blank == " "
\* format!("{} {}", a, b)
FormatScale(a, b) == <<a, Blank, b>>
\* str::split_whitespace().collect()
SplitWhitespace(s) == SelectSeq(s, LAMBDA atom : atom # Blank)

----------------------------------------------------------------------------
(* Integer widths *)

I8 == -128 .. 127
U8 == 0 .. 255
WrapI8(x) == ((x + 128) % 256) - 128
WrapU8(x) == x % 256

ReferenceOctave == 3
\* mutant: the plugin starts at octave 0
DefaultOctave_Zero == ReferenceOctave - ReferenceOctave
DefaultOctave == 3
SemitonesPerOctave == 12

\* (self.state.octave - 3) * 12 in i8: does either operation leave i8?
OctaveOffsetOverflows(oct) ==
    \/ oct - ReferenceOctave \notin I8
    \/ WrapI8(oct - ReferenceOctave) * SemitonesPerOctave \notin I8
\* mutant: the reference octave is not subtracted
OctaveOffset_NoReference(oct) == WrapI8(WrapI8(oct) * SemitonesPerOctave)
\* the value a build without overflow checks computes
OctaveOffset(oct) == WrapI8(WrapI8(oct - ReferenceOctave) * SemitonesPerOctave)
\* (*note as i16 + octave_offset as i16) as u8
FinalNote(note, octave_offset) == WrapU8(note + octave_offset)

----------------------------------------------------------------------------
(* Scale catalog: get_scale_map *)

notes == <<"C", "C#", "D", "D#", "E", "F", "F#", "G", "G#", "A", "A#", "B">>
major_pattern == <<0, 2, 4, 5, 7, 9, 11>>
minor_pattern == <<0, 2, 3, 5, 7, 8, 10>>
major_chord_types == <<"maj", "m", "m", "maj", "maj", "m", "dim">>
minor_chord_types == <<"m", "dim", "maj", "m", "m", "maj", "maj">>
major_degrees == <<"I", "ii", "iii", "IV", "V", "vi", "vii°">>
minor_degrees == <<"i", "ii°", "III", "iv", "v", "VI", "VII">>

\* mutant: the pattern is not moved to the root
Diatonics_Untransposed(i, pattern, chord_types, degrees) ==
    [j \in 1 .. 7 |->
        [root_note  |-> notes[(pattern[j] % 12) + 1],
         chord_type |-> chord_types[j],
         degree     |-> degrees[j]]]

\* the Vec pushed for root index i (0-based) by the inner loops
Diatonics(i, pattern, chord_types, degrees) ==
    [j \in 1 .. 7 |->
        [root_note  |-> notes[((i + pattern[j]) % 12) + 1],
         chord_type |-> chord_types[j],
         degree     |-> degrees[j]]]

\* the map after the outer loop has run for i = 0 .. n-1
RECURSIVE ScaleMapAfter(_)
ScaleMapAfter(n) ==
    IF n = 0 THEN EmptyMap
    ELSE LET i == n - 1
             withMajor == MapInsert(ScaleMapAfter(n - 1),
                              FormatScale(notes[i + 1], "Major"),
                              Diatonics(i, major_pattern, major_chord_types, major_degrees))
         IN  MapInsert(withMajor,
                 FormatScale(notes[i + 1], "Minor"),
                 Diatonics(i, minor_pattern, minor_chord_types, minor_degrees))

get_scale_map == ScaleMapAfter(12)

----------------------------------------------------------------------------
(* Key mappings: generate_default_key_mappings *)

ChordId(root, type) == [root_note |-> root, chord_type |-> type]

default_keys == <<"Z", "X", "C", "V", "B", "N", "M">>

\* mutant: the keys are visited from M down to Z
DefaultMappingsAfter_Reversed(diatonics, n) ==
    [k \in {default_keys[j] : j \in 1 .. n} |->
        LET j == CHOOSE x \in 1 .. n : default_keys[x] = k
        IN  ChordId(diatonics[n + 1 - j].root_note, diatonics[n + 1 - j].chord_type)]

\* the mappings after the for loop has visited default_keys[1 .. n]
RECURSIVE DefaultMappingsAfter(_, _)
DefaultMappingsAfter(diatonics, n) ==
    IF n = 0 THEN EmptyMap
    ELSE LET before == DefaultMappingsAfter(diatonics, n - 1)
         IN  IF n \in DOMAIN diatonics
             THEN MapInsert(before, default_keys[n],
                      ChordId(diatonics[n].root_note, diatonics[n].chord_type))
             ELSE before

generate_default_key_mappings(scale_map, current_scale) ==
    IF current_scale \in DOMAIN scale_map
    THEN DefaultMappingsAfter(scale_map[current_scale], Len(default_keys))
    ELSE EmptyMap

----------------------------------------------------------------------------
(* Chord voicing table: the content of chords-builder/chords.json, which   *)
(* include_str! loads into chord_table.  A sparse sample: three roots, one *)
(* chord with two inversions that share notes, one with three, one entry   *)
(* whose inversion list is empty, every other (root, type) pair absent.    *)

Voicings(invs) == [inversions |-> invs]

chord_table ==
    ("C" :> (("maj" :> Voicings(<< <<60, 64, 67>>, <<64, 67, 72>> >>))
             @@ ("m" :> Voicings(<< <<60, 63, 67>> >>))
             @@ ("7" :> Voicings(<< <<60, 64, 67, 70>>, <<64, 67, 70, 72>>,
                                    <<67, 70, 72, 76>> >>))))
    @@ ("G" :> ("maj" :> Voicings(<< <<67, 71, 74>> >>)))
    @@ ("B" :> ("dim" :> Voicings(<< >>)))

\* self.chord_table.get(&chord_id.root_note).and_then(|v| v.get(&chord_id.chord_type))
Lookup(chord_id) ==
    IF chord_id.root_note \in DOMAIN chord_table
    THEN MapGet(chord_table[chord_id.root_note], chord_id.chord_type)
    ELSE None

----------------------------------------------------------------------------
(* Note events and the host that receives them *)

NoteOff(n) == [kind |-> "NoteOff", note |-> n]
NoteOn(n)  == [kind |-> "NoteOn", note |-> n]

\* mutant: the flush stops one note short
DrainNoteOffs_AllButLast(sounding) ==
    [i \in 1 .. (IF Len(sounding) = 0 THEN 0 ELSE Len(sounding) - 1) |-> NoteOff(sounding[i])]

\* for note in self.active_notes.drain(..) { context.send_event(NoteOff) }
DrainNoteOffs(sounding) == [i \in 1 .. Len(sounding) |-> NoteOff(sounding[i])]

\* the host's count of sounding notes after one event
HostAfterEvent(h, ev) ==
    IF ev.kind = "NoteOn"
    THEN IF ev.note \in DOMAIN h
         THEN [h EXCEPT ![ev.note] = @ + 1]
         ELSE (ev.note :> 1) @@ h
    ELSE IF ev.note \notin DOMAIN h THEN h
         ELSE IF h[ev.note] = 1
              THEN [n \in DOMAIN h \ {ev.note} |-> h[n]]
              ELSE [h EXCEPT ![ev.note] = @ - 1]

RECURSIVE HostAfter(_, _)
HostAfter(h, evs) ==
    IF evs = << >> THEN h
    ELSE HostAfter(HostAfterEvent(h, Head(evs)), Tail(evs))

\* some note-off of evs reaches the host for a note that is not on
RECURSIVE HostStray(_, _)
HostStray(h, evs) ==
    IF evs = << >> THEN FALSE
    ELSE \/ Head(evs).kind = "NoteOff" /\ Head(evs).note \notin DOMAIN h
         \/ HostStray(HostAfterEvent(h, Head(evs)), Tail(evs))

\* context.send_event for each event of evs, in order
SendEvents(evs) ==
    /\ emitted' = evs
    /\ held' = HostAfter(held, evs)
    /\ stray_off' = (stray_off \/ HostStray(held, evs))

----------------------------------------------------------------------------
(* process(): one iteration of the while-let loop per action *)

Msg(type) == [type |-> type]

\* mutant: the stored inversion is ignored
CurrentInversion_Zero(chord_id) == 0

\* mutant: the inversion of the inversion target is used instead of the chord's own
CurrentInversion_Pinned(chord_id) ==
    LET target == IF inversion_chord # None THEN Unwrap(inversion_chord) ELSE chord_id
    IN  IF target \in DOMAIN inversion_map THEN inversion_map[target] ELSE 0

\* self.state.inversion_map.get(&chord_id).copied().unwrap_or(0)
CurrentInversion(chord_id) ==
    IF chord_id \in DOMAIN inversion_map THEN inversion_map[chord_id] ELSE 0

\* mutant: an index past the last inversion selects the last inversion
InversionIdx_Saturating(current_inversion, num_inversions) ==
    IF current_inversion < num_inversions THEN current_inversion ELSE num_inversions - 1

\* current_inversion as usize % num_inversions
InversionIdx(current_inversion, num_inversions) == current_inversion % num_inversions

\* the body of the ChordOn arm
ChordOnFold(chord_id) ==
    LET offs == DrainNoteOffs(active_notes)
        current_inversion == CurrentInversion(chord_id)
        voicing == Lookup(chord_id)
        num_inversions ==
            IF voicing = None THEN 0 ELSE Len(Unwrap(voicing).inversions)
        inversion_idx == InversionIdx(current_inversion, num_inversions)
        notes_to_play == Unwrap(voicing).inversions[inversion_idx + 1]
        octave_offset == OctaveOffset(octave)
        final_notes ==
            [i \in 1 .. Len(notes_to_play) |-> FinalNote(notes_to_play[i], octave_offset)]
    IN  IF num_inversions > 0
        THEN IF overflow_checks /\ OctaveOffsetOverflows(octave)
             THEN /\ panicked' = TRUE
                  /\ active_notes' = << >>
                  /\ SendEvents(offs)
                  /\ UNCHANGED playing_chord
             ELSE /\ active_notes' = final_notes
                  /\ SendEvents(offs \o [i \in 1 .. Len(final_notes) |-> NoteOn(final_notes[i])])
                  /\ playing_chord' = Some(chord_id)
                  /\ UNCHANGED panicked
        ELSE /\ active_notes' = << >>
             /\ SendEvents(offs)
             /\ playing_chord' = Some(chord_id)
             /\ UNCHANGED panicked

\* mutant: a chord that is already playing is not flushed before it is played again
ChordOn_SkipFlushSameChord(chord_id) ==
    /\ ~panicked
    /\ message' = Some([type |-> "ChordOn", chord_id |-> chord_id])
    /\ IF playing_chord = Some(chord_id) /\ active_notes # << >>
       THEN /\ active_notes' = active_notes \o active_notes
            /\ SendEvents([i \in 1 .. Len(active_notes) |-> NoteOn(active_notes[i])])
            /\ UNCHANGED <<playing_chord, panicked>>
       ELSE ChordOnFold(chord_id)
    /\ UNCHANGED <<octave, root_note, scale_type, inversion_chord, inversion_map,
                   key_mappings, playing_key, overflow_checks>>

\* mutant: a chord without a voicing is ignored, the sounding notes stay on
ChordOn_UnresolvedIgnored(chord_id) ==
    /\ ~panicked
    /\ message' = Some([type |-> "ChordOn", chord_id |-> chord_id])
    /\ IF Lookup(chord_id) = None \/ Unwrap(Lookup(chord_id)).inversions = << >>
       THEN /\ SendEvents(<< >>)
            /\ UNCHANGED <<active_notes, playing_chord, panicked>>
       ELSE ChordOnFold(chord_id)
    /\ UNCHANGED <<octave, root_note, scale_type, inversion_chord, inversion_map,
                   key_mappings, playing_key, overflow_checks>>

\* MidiMessage::ChordOn(chord_id)
ChordOn(chord_id) ==
    /\ ~panicked
    /\ message' = Some([type |-> "ChordOn", chord_id |-> chord_id])
    /\ ChordOnFold(chord_id)
    /\ UNCHANGED <<octave, root_note, scale_type, inversion_chord, inversion_map,
                   key_mappings, playing_key, overflow_checks>>

\* mutant: the requested chord is not cleared
ChordOff_KeepsChord ==
    /\ ~panicked
    /\ message' = Some(Msg("ChordOff"))
    /\ SendEvents(DrainNoteOffs(active_notes))
    /\ active_notes' = << >>
    /\ UNCHANGED <<octave, root_note, scale_type, playing_chord, inversion_chord,
                   inversion_map, key_mappings, playing_key, overflow_checks, panicked>>

\* mutant: the requested chord is cleared, the notes are left sounding
ChordOff_KeepsNotes ==
    /\ ~panicked
    /\ message' = Some(Msg("ChordOff"))
    /\ SendEvents(<< >>)
    /\ playing_chord' = None
    /\ UNCHANGED <<active_notes, octave, root_note, scale_type, inversion_chord,
                   inversion_map, key_mappings, playing_key, overflow_checks, panicked>>

\* MidiMessage::ChordOff
ChordOff ==
    /\ ~panicked
    /\ message' = Some(Msg("ChordOff"))
    /\ SendEvents(DrainNoteOffs(active_notes))
    /\ active_notes' = << >>
    /\ playing_chord' = None
    /\ UNCHANGED <<octave, root_note, scale_type, inversion_chord, inversion_map,
                   key_mappings, playing_key, overflow_checks, panicked>>

\* mutant: setting the inversion target also makes it the playing chord
SetInversionChord_Selects(chord_id) ==
    /\ ~panicked
    /\ message' = Some([type |-> "SetInversionChord", chord_id |-> chord_id])
    /\ inversion_chord' = Some(chord_id)
    /\ playing_chord' = Some(chord_id)
    /\ SendEvents(<< >>)
    /\ UNCHANGED <<active_notes, octave, root_note, scale_type,
                   inversion_map, key_mappings, playing_key, overflow_checks, panicked>>

\* MidiMessage::SetInversionChord(chord_id)
SetInversionChord(chord_id) ==
    /\ ~panicked
    /\ message' = Some([type |-> "SetInversionChord", chord_id |-> chord_id])
    /\ inversion_chord' = Some(chord_id)
    /\ SendEvents(<< >>)
    /\ UNCHANGED <<active_notes, octave, root_note, scale_type, playing_chord,
                   inversion_map, key_mappings, playing_key, overflow_checks, panicked>>

\* mutant: the sounding notes are moved to the new octave at once
UpdateOctave_Retriggers(new_octave) ==
    LET moved == [i \in 1 .. Len(active_notes) |->
                    WrapU8(active_notes[i] + (new_octave - octave) * SemitonesPerOctave)]
    IN  /\ ~panicked
        /\ message' = Some([type |-> "UpdateOctave", octave |-> new_octave])
        /\ octave' = new_octave
        /\ active_notes' = moved
        /\ SendEvents(DrainNoteOffs(active_notes)
                        \o [i \in 1 .. Len(moved) |-> NoteOn(moved[i])])
        /\ UNCHANGED <<root_note, scale_type, playing_chord, inversion_chord,
                       inversion_map, key_mappings, playing_key, overflow_checks, panicked>>

\* MidiMessage::UpdateOctave(octave)
UpdateOctave(new_octave) ==
    /\ ~panicked
    /\ message' = Some([type |-> "UpdateOctave", octave |-> new_octave])
    /\ octave' = new_octave
    /\ SendEvents(<< >>)
    /\ UNCHANGED <<active_notes, root_note, scale_type, playing_chord, inversion_chord,
                   inversion_map, key_mappings, playing_key, overflow_checks, panicked>>

\* mutant: the index is stored for every chord that has an entry
UpdateInversion_AllEntries(chord_id, inversion) ==
    /\ ~panicked
    /\ message' = Some([type |-> "UpdateInversion", chord_id |-> chord_id,
                        inversion |-> inversion])
    /\ inversion_map' = [c \in DOMAIN inversion_map \cup {chord_id} |-> inversion]
    /\ SendEvents(<< >>)
    /\ UNCHANGED <<active_notes, octave, root_note, scale_type, playing_chord,
                   inversion_chord, key_mappings, playing_key, overflow_checks, panicked>>

\* MidiMessage::UpdateInversion(chord_id, inversion)
UpdateInversion(chord_id, inversion) ==
    /\ ~panicked
    /\ message' = Some([type |-> "UpdateInversion", chord_id |-> chord_id,
                        inversion |-> inversion])
    /\ inversion_map' = MapInsert(inversion_map, chord_id, inversion)
    /\ SendEvents(<< >>)
    /\ UNCHANGED <<active_notes, octave, root_note, scale_type, playing_chord,
                   inversion_chord, key_mappings, playing_key, overflow_checks, panicked>>

\* mutant: the new defaults are merged into the old mappings
UpdateScale_Merge(scale) ==
    /\ ~panicked
    /\ message' = Some([type |-> "UpdateScale", scale |-> scale])
    /\ LET parts == SplitWhitespace(scale)
       IN  IF Len(parts) = 2
           THEN /\ root_note' = parts[1]
                /\ scale_type' = parts[2]
                /\ key_mappings' =
                       generate_default_key_mappings(get_scale_map, scale) @@ key_mappings
           ELSE UNCHANGED <<root_note, scale_type, key_mappings>>
    /\ SendEvents(<< >>)
    /\ UNCHANGED <<active_notes, octave, playing_chord, inversion_chord, inversion_map,
                   playing_key, overflow_checks, panicked>>

\* MidiMessage::UpdateScale(scale)
\* mutant: a scale the catalog does not have keeps the mappings
UpdateScale_UnknownKeepsMappings(scale) ==
    /\ ~panicked
    /\ message' = Some([type |-> "UpdateScale", scale |-> scale])
    /\ LET parts == SplitWhitespace(scale)
       IN  IF Len(parts) = 2
           THEN /\ root_note' = parts[1]
                /\ scale_type' = parts[2]
                /\ key_mappings' = IF scale \in DOMAIN get_scale_map
                                   THEN generate_default_key_mappings(get_scale_map, scale)
                                   ELSE key_mappings
           ELSE UNCHANGED <<root_note, scale_type, key_mappings>>
    /\ SendEvents(<< >>)
    /\ UNCHANGED <<active_notes, octave, playing_chord, inversion_chord, inversion_map,
                   playing_key, overflow_checks, panicked>>

UpdateScale(scale) ==
    /\ ~panicked
    /\ message' = Some([type |-> "UpdateScale", scale |-> scale])
    /\ LET parts == SplitWhitespace(scale)
       IN  IF Len(parts) = 2
           THEN /\ root_note' = parts[1]
                /\ scale_type' = parts[2]
                /\ key_mappings' = generate_default_key_mappings(get_scale_map, scale)
           ELSE UNCHANGED <<root_note, scale_type, key_mappings>>
    /\ SendEvents(<< >>)
    /\ UNCHANGED <<active_notes, octave, playing_chord, inversion_chord, inversion_map,
                   playing_key, overflow_checks, panicked>>

\* mutant: remapping the active trigger stops what it plays
UpdateKeyMapping_StopsTrigger(key, chord_id) ==
    /\ ~panicked
    /\ message' = Some([type |-> "UpdateKeyMapping", key |-> key, chord_id |-> chord_id])
    /\ key_mappings' = MapInsert(key_mappings, key, chord_id)
    /\ IF playing_key = Some(key)
       THEN /\ SendEvents(DrainNoteOffs(active_notes))
            /\ active_notes' = << >>
            /\ playing_chord' = None
            /\ playing_key' = None
       ELSE /\ SendEvents(<< >>)
            /\ UNCHANGED <<active_notes, playing_chord, playing_key>>
    /\ UNCHANGED <<octave, root_note, scale_type,
                   inversion_chord, inversion_map, overflow_checks, panicked>>

\* MidiMessage::UpdateKeyMapping(key, chord_id)
UpdateKeyMapping(key, chord_id) ==
    /\ ~panicked
    /\ message' = Some([type |-> "UpdateKeyMapping", key |-> key, chord_id |-> chord_id])
    /\ key_mappings' = MapInsert(key_mappings, key, chord_id)
    /\ SendEvents(<< >>)
    /\ UNCHANGED <<active_notes, octave, root_note, scale_type, playing_chord,
                   inversion_chord, inversion_map, playing_key, overflow_checks, panicked>>

\* mutant: the key arm ignores the stored inversion
KeyCurrentInversion_Zero(chord_id) == 0

\* self.state.inversion_map.get(&chord_id).copied().unwrap_or(0), in the KeyChordOn arm
KeyCurrentInversion(chord_id) ==
    IF chord_id \in DOMAIN inversion_map THEN inversion_map[chord_id] ELSE 0

\* the body of the KeyChordOn arm
KeyChordOnFold(key) ==
    IF key \in DOMAIN key_mappings
    THEN LET chord_id == key_mappings[key]
             offs == DrainNoteOffs(active_notes)
             current_inversion == KeyCurrentInversion(chord_id)
             voicing == Lookup(chord_id)
             num_inversions ==
                 IF voicing = None THEN 0 ELSE Len(Unwrap(voicing).inversions)
             inversion_idx == InversionIdx(current_inversion, num_inversions)
             notes_to_play == Unwrap(voicing).inversions[inversion_idx + 1]
             octave_offset == OctaveOffset(octave)
             final_notes ==
                 [i \in 1 .. Len(notes_to_play) |->
                     FinalNote(notes_to_play[i], octave_offset)]
         IN  IF num_inversions > 0
             THEN IF overflow_checks /\ OctaveOffsetOverflows(octave)
                  THEN /\ panicked' = TRUE
                       /\ active_notes' = << >>
                       /\ SendEvents(offs)
                       /\ UNCHANGED <<playing_chord, playing_key>>
                  ELSE /\ active_notes' = final_notes
                       /\ SendEvents(offs \o
                              [i \in 1 .. Len(final_notes) |-> NoteOn(final_notes[i])])
                       /\ playing_chord' = Some(chord_id)
                       /\ playing_key' = Some(key)
                       /\ UNCHANGED panicked
             ELSE /\ active_notes' = << >>
                  /\ SendEvents(offs)
                  /\ playing_chord' = Some(chord_id)
                  /\ playing_key' = Some(key)
                  /\ UNCHANGED panicked
    ELSE /\ SendEvents(<< >>)
         /\ UNCHANGED <<active_notes, playing_chord, playing_key, panicked>>

\* mutant: a trigger that is already active is ignored
KeyChordOn_SuppressActive(key) ==
    /\ ~panicked
    /\ message' = Some([type |-> "KeyChordOn", key |-> key])
    /\ IF playing_key = Some(key)
       THEN /\ SendEvents(<< >>)
            /\ UNCHANGED <<active_notes, playing_chord, playing_key, panicked>>
       ELSE KeyChordOnFold(key)
    /\ UNCHANGED <<octave, root_note, scale_type, inversion_chord, inversion_map,
                   key_mappings, overflow_checks>>

\* mutant: a key without a mapping still switches the sounding notes off
KeyChordOn_UnmappedFlushes(key) ==
    /\ ~panicked
    /\ message' = Some([type |-> "KeyChordOn", key |-> key])
    /\ IF key \in DOMAIN key_mappings
       THEN KeyChordOnFold(key)
       ELSE /\ SendEvents(DrainNoteOffs(active_notes))
            /\ active_notes' = << >>
            /\ UNCHANGED <<playing_chord, playing_key, panicked>>
    /\ UNCHANGED <<octave, root_note, scale_type, inversion_chord, inversion_map,
                   key_mappings, overflow_checks>>

\* MidiMessage::KeyChordOn(key)
KeyChordOn(key) ==
    /\ ~panicked
    /\ message' = Some([type |-> "KeyChordOn", key |-> key])
    /\ KeyChordOnFold(key)
    /\ UNCHANGED <<octave, root_note, scale_type, inversion_chord, inversion_map,
                   key_mappings, overflow_checks>>

\* the body of the KeyChordOff arm; _key is not read
KeyChordOffFold(key) ==
    /\ SendEvents(DrainNoteOffs(active_notes))
    /\ active_notes' = << >>
    /\ playing_chord' = None
    /\ playing_key' = None

\* mutant: only the release of the active trigger is honoured
KeyChordOff_OnlyActive(key) ==
    /\ ~panicked
    /\ message' = Some([type |-> "KeyChordOff", key |-> key])
    /\ IF playing_key = Some(key)
       THEN KeyChordOffFold(key)
       ELSE /\ SendEvents(<< >>)
            /\ UNCHANGED <<active_notes, playing_chord, playing_key>>
    /\ UNCHANGED <<octave, root_note, scale_type, inversion_chord, inversion_map,
                   key_mappings, overflow_checks, panicked>>

\* mutant: the sounding notes are dropped without a note-off
KeyChordOff_NoFlush(key) ==
    /\ ~panicked
    /\ message' = Some([type |-> "KeyChordOff", key |-> key])
    /\ SendEvents(<< >>)
    /\ active_notes' = << >>
    /\ playing_chord' = None
    /\ playing_key' = None
    /\ UNCHANGED <<octave, root_note, scale_type, inversion_chord, inversion_map,
                   key_mappings, overflow_checks, panicked>>

\* MidiMessage::KeyChordOff(_key)
KeyChordOff(key) ==
    /\ ~panicked
    /\ message' = Some([type |-> "KeyChordOff", key |-> key])
    /\ KeyChordOffFold(key)
    /\ UNCHANGED <<octave, root_note, scale_type, inversion_chord, inversion_map,
                   key_mappings, overflow_checks, panicked>>

----------------------------------------------------------------------------
(* Initial state: PerfectChords::default with GuiState::default *)

\* GuiState::default(), the state the editor starts from
GuiStateDefault ==
    [octave |-> DefaultOctave,
     root_note |-> "C",
     scale_type |-> "Major",
     playing_chord |-> None,
     inversion_chord |-> None,
     inversion_map |-> EmptyMap,
     key_mappings |-> generate_default_key_mappings(get_scale_map, FormatScale("C", "Major")),
     playing_key |-> None,
     view_mode |-> "ChordGrid",
     key_to_map |-> None]

\* no process() call has run yet
NoCall == [queued |-> 0, arrived |-> 0, folded |-> 0]

Init ==
    /\ active_notes = << >>
    /\ octave = DefaultOctave
    /\ root_note = "C"
    /\ scale_type = "Major"
    /\ playing_chord = None
    /\ inversion_chord = None
    /\ inversion_map = EmptyMap
    /\ key_mappings = generate_default_key_mappings(get_scale_map, FormatScale("C", "Major"))
    /\ playing_key = None
    /\ message = None
    /\ emitted = << >>
    /\ held = EmptyMap
    /\ stray_off = FALSE
    /\ overflow_checks \in BOOLEAN
    /\ panicked = FALSE
    /\ queue = << >>
    /\ sent = << >>
    /\ received = << >>
    /\ pc = "idle"
    /\ call = NoCall
    /\ ed = GuiStateDefault
    /\ ed_diatonics = None

----------------------------------------------------------------------------
(* Spec: the receiver may yield any message of the sampled input sets *)

CMaj == ChordId("C", "maj")
GMaj == ChordId("G", "maj")
BDim == ChordId("B", "dim")      \* in the table, with no inversion
C13  == ChordId("C", "13")       \* not in the table

ChordInputs == {CMaj, GMaj, C13}
PinInputs == {GMaj}
\* one octave up, and a value whose offset leaves i8; Init has the reference octave
HighOctave == 14
OctaveInputs == {DefaultOctave + 1, HighOctave}
\* indices up to MaxInversion, which is not below the number of CMaj's inversions
MaxInversion == 2
InversionInputs == {<<CMaj, i>> : i \in 1 .. MaxInversion}
\* Z is a default key, A is not
KeyInputs == {"Z", "A"}
MappingInputs == {<<"A", BDim>>}
ScaleInputs == {FormatScale("G", "Major")}

\* the message is folded as soon as it exists: channel and editor stand still
Direct == UNCHANGED <<chanVars, edVars>>

Next ==
    \/ \E c \in ChordInputs : ChordOn(c) /\ Direct
    \/ ChordOff /\ Direct
    \/ \E c \in PinInputs : SetInversionChord(c) /\ Direct
    \/ \E o \in OctaveInputs : UpdateOctave(o) /\ Direct
    \/ \E ci \in InversionInputs : UpdateInversion(ci[1], ci[2]) /\ Direct
    \/ \E s \in ScaleInputs : UpdateScale(s) /\ Direct
    \/ \E kc \in MappingInputs : UpdateKeyMapping(kc[1], kc[2]) /\ Direct
    \/ \E k \in KeyInputs : KeyChordOn(k) /\ Direct
    \/ \E k \in KeyInputs : KeyChordOff(k) /\ Direct

Spec == Init /\ [][Next]_vars

----------------------------------------------------------------------------
(* SpecChannel: the editor thread sends while process() calls receive *)

\* match message { ... }
Fold(m) ==
    \/ m.type = "ChordOn" /\ ChordOn(m.chord_id)
    \/ m.type = "ChordOff" /\ ChordOff
    \/ m.type = "SetInversionChord" /\ SetInversionChord(m.chord_id)
    \/ m.type = "UpdateOctave" /\ UpdateOctave(m.octave)
    \/ m.type = "UpdateInversion" /\ UpdateInversion(m.chord_id, m.inversion)
    \/ m.type = "UpdateScale" /\ UpdateScale(m.scale)
    \/ m.type = "UpdateKeyMapping" /\ UpdateKeyMapping(m.key, m.chord_id)
    \/ m.type = "KeyChordOn" /\ KeyChordOn(m.key)
    \/ m.type = "KeyChordOff" /\ KeyChordOff(m.key)

\* the number of messages the editor sends in a behaviour
MaxSent == 3

\* sender.send(m): the channel is unbounded, the send never waits
Enqueue(m) ==
    /\ Len(sent) < MaxSent
    /\ queue' = Append(queue, m)
    /\ sent' = Append(sent, m)
    /\ call' = IF pc = "draining" THEN [call EXCEPT !.arrived = @ + 1] ELSE call
    /\ UNCHANGED <<received, pc>>

\* process() and the host stand still while the editor runs
EditorStep == UNCHANGED <<procVars, message, hostVars, overflow_checks, panicked>>

\* some handler of the editor sends m
Send(m) ==
    /\ ~panicked
    /\ Enqueue(m)
    /\ EditorStep
    /\ UNCHANGED edVars

\* the host calls process()
ProcessCall ==
    /\ ~panicked
    /\ pc = "idle"
    /\ pc' = "draining"
    /\ call' = [queued |-> Len(queue), arrived |-> 0, folded |-> 0]
    /\ UNCHANGED <<procVars, message, hostVars, overflow_checks, panicked,
                   queue, sent, received, edVars>>

\* mutant: try_recv yields the newest message of the channel
Recv_Newest ==
    /\ pc = "draining"
    /\ queue # << >>
    /\ Fold(queue[Len(queue)])
    /\ queue' = SubSeq(queue, 1, Len(queue) - 1)
    /\ received' = Append(received, queue[Len(queue)])
    /\ call' = [call EXCEPT !.folded = @ + 1]
    /\ UNCHANGED <<sent, pc, edVars>>

\* try_recv() returns Ok(message): the message leaves the channel and is folded
Recv ==
    /\ pc = "draining"
    /\ queue # << >>
    /\ Fold(Head(queue))
    /\ queue' = Tail(queue)
    /\ received' = Append(received, Head(queue))
    /\ call' = [call EXCEPT !.folded = @ + 1]
    /\ UNCHANGED <<sent, pc, edVars>>

\* try_recv() returns Err: the loop ends, process() returns ProcessStatus::Normal
ProcessReturn ==
    /\ ~panicked
    /\ pc = "draining"
    /\ queue = << >>
    /\ pc' = "idle"
    /\ UNCHANGED <<procVars, message, hostVars, overflow_checks, panicked,
                   queue, sent, received, call, edVars>>

ChannelInputs ==
    {[type |-> "ChordOn", chord_id |-> CMaj],
     [type |-> "ChordOff"],
     [type |-> "SetInversionChord", chord_id |-> GMaj],
     [type |-> "UpdateOctave", octave |-> HighOctave],
     [type |-> "UpdateInversion", chord_id |-> CMaj, inversion |-> 1],
     [type |-> "UpdateScale", scale |-> FormatScale("G", "Major")],
     [type |-> "UpdateKeyMapping", key |-> "A", chord_id |-> BDim],
     [type |-> "KeyChordOn", key |-> "Z"],
     [type |-> "KeyChordOff", key |-> "Z"]}

NextChannel ==
    \/ \E m \in ChannelInputs : Send(m)
    \/ ProcessCall
    \/ Recv
    \/ ProcessReturn

SpecChannel == Init /\ [][NextChannel]_vars

----------------------------------------------------------------------------
(* SpecScenario: the editor sends chord presses and releases *)

ScenarioInputs ==
    {[type |-> "ChordOn", chord_id |-> CMaj],
     [type |-> "ChordOn", chord_id |-> GMaj],
     [type |-> "ChordOff"]}

NextScenario ==
    \/ \E m \in ScenarioInputs : Send(m)
    \/ ProcessCall
    \/ Recv
    \/ ProcessReturn

SpecScenario == Init /\ [][NextScenario]_vars

----------------------------------------------------------------------------
(* SpecLive: the host keeps calling process(), and a call that runs keeps  *)
(* running: weak fairness on the call, on each loop iteration and on the   *)
(* return                                                                  *)

LiveInputs ==
    {[type |-> "UpdateOctave", octave |-> HighOctave],
     [type |-> "ChordOn", chord_id |-> CMaj],
     [type |-> "ChordOff"]}

NextLive ==
    \/ \E m \in LiveInputs : Send(m)
    \/ ProcessCall
    \/ Recv
    \/ ProcessReturn

SpecLive ==
    /\ Init
    /\ [][NextLive]_vars
    /\ WF_vars(ProcessCall)
    /\ WF_vars(Recv)
    /\ WF_vars(ProcessReturn)

----------------------------------------------------------------------------
(* SpecCatalog: the editor's scale pickers; process() is not called *)

\* let scale = format!(..); let diatonics = scale_map.get(&scale).cloned().unwrap_or_default()
FrameDiatonics ==
    LET scale == FormatScale(ed.root_note, ed.scale_type)
    IN  Some([scale |-> scale,
              chords |-> IF scale \in DOMAIN get_scale_map
                         THEN get_scale_map[scale] ELSE << >>])

\* the closure's progress within one frame: its state and the messages it has sent
Frame(st, out) == [st |-> st, out |-> out]

\* mutant: the release of the pointer also forgets the key that is held
PointerReleased_ForgetsKey(f) ==
    IF f.st.playing_chord # None
    THEN Frame([f.st EXCEPT !.playing_chord = None, !.playing_key = None],
               Append(f.out, [type |-> "ChordOff"]))
    ELSE f

\* if state.playing_chord.is_some() && primary_released(): the end of a frame
\* of the chord grid view in which the pointer button was released; every
\* click on a widget of that view is such a frame
PointerReleased(f) ==
    IF f.st.playing_chord # None
    THEN Frame([f.st EXCEPT !.playing_chord = None],
               Append(f.out, [type |-> "ChordOff"]))
    ELSE f

\* one run of the update closure: the state it leaves and the messages it
\* sends, in order; the state is private to the editor thread
EditorFrame(f) ==
    /\ Len(sent) + Len(f.out) <= MaxSent
    /\ ed_diatonics' = FrameDiatonics
    /\ ed' = f.st
    /\ queue' = queue \o f.out
    /\ sent' = sent \o f.out
    /\ call' = IF pc = "draining"
               THEN [call EXCEPT !.arrived = @ + Len(f.out)] ELSE call
    /\ UNCHANGED <<received, pc>>
    /\ EditorStep

\* a frame in which an entry of the root note picker is clicked
PickRootNote(note) ==
    LET new_scale == FormatScale(note, ed.scale_type)
        st == [ed EXCEPT !.root_note = note,
                         !.key_mappings =
                             generate_default_key_mappings(get_scale_map, new_scale)]
    IN  /\ ed.view_mode = "ChordGrid"
        /\ EditorFrame(PointerReleased(
               Frame(st, <<[type |-> "UpdateScale", scale |-> new_scale]>>)))

\* a frame in which an entry of the scale type picker is clicked
PickScaleType(type) ==
    LET new_scale == FormatScale(ed.root_note, type)
        st == [ed EXCEPT !.scale_type = type,
                         !.key_mappings =
                             generate_default_key_mappings(get_scale_map, new_scale)]
    IN  /\ ed.view_mode = "ChordGrid"
        /\ EditorFrame(PointerReleased(
               Frame(st, <<[type |-> "UpdateScale", scale |-> new_scale]>>)))

\* a frame in which nothing is clicked
FrameIdle ==
    /\ ed_diatonics' = FrameDiatonics
    /\ UNCHANGED <<ed, chanVars>>
    /\ EditorStep

RootNoteInputs == {notes[i] : i \in 1 .. 12}
ScaleTypeInputs == {"Major", "Minor"}

NextCatalog ==
    \/ \E note \in RootNoteInputs : PickRootNote(note)
    \/ \E type \in ScaleTypeInputs : PickScaleType(type)
    \/ FrameIdle

SpecCatalog == Init /\ [][NextCatalog]_vars

----------------------------------------------------------------------------
(* SpecEditor: every handler of the editor, with process() on its thread *)

grid_rows ==
    <<"maj", "m", "5", "sus2", "sus4", "6", "m6", "7", "m7", "maj7", "dim",
      "aug", "9", "m9", "maj9", "flat5", "m7b5", "dim7">>

keys_to_map == <<"Z", "X", "C", "V", "B", "N", "M">>

\* the grids draw a button for a chord of a root of the frame's diatonics and
\* of a type of grid_rows that the chord table has
HasButton(chord_id) ==
    /\ \E i \in DOMAIN Unwrap(FrameDiatonics).chords :
           Unwrap(FrameDiatonics).chords[i].root_note = chord_id.root_note
    /\ \E i \in DOMAIN grid_rows : grid_rows[i] = chord_id.chord_type
    /\ Lookup(chord_id) # None

\* mutant: a key that is already the playing key is triggered again
KeyFrame_Retriggers(st, key, pressed, repeat) ==
    IF ~repeat /\ MapGet(st.key_mappings, key) # None
    THEN IF pressed
         THEN Frame([st EXCEPT !.playing_key = Some(key),
                               !.playing_chord = MapGet(st.key_mappings, key)],
                    <<[type |-> "KeyChordOn", key |-> key]>>)
         ELSE IF st.playing_key = Some(key)
              THEN Frame([st EXCEPT !.playing_key = None, !.playing_chord = None],
                         <<[type |-> "KeyChordOff", key |-> key]>>)
              ELSE Frame(st, << >>)
    ELSE Frame(st, << >>)

\* the handling of one egui::Event::Key at the start of a frame
KeyFrame(st, key, pressed, repeat) ==
    IF ~repeat /\ MapGet(st.key_mappings, key) # None
    THEN IF pressed
         THEN IF st.playing_key # Some(key)
              THEN Frame([st EXCEPT !.playing_key = Some(key),
                                    !.playing_chord = MapGet(st.key_mappings, key)],
                         <<[type |-> "KeyChordOn", key |-> key]>>)
              ELSE Frame(st, << >>)
         ELSE IF st.playing_key = Some(key)
              THEN Frame([st EXCEPT !.playing_key = None, !.playing_chord = None],
                         <<[type |-> "KeyChordOff", key |-> key]>>)
              ELSE Frame(st, << >>)
    ELSE Frame(st, << >>)

\* a frame with a key event, in either view
KeyEvent(key, pressed, repeat) ==
    EditorFrame(KeyFrame(ed, key, pressed, repeat))

\* a frame in which an octave button is clicked: state.octave -= 1 or += 1 in
\* i8; beyond i8 the editor panics (overflow checks) or the value wraps
OctaveButton(step) ==
    /\ ed.view_mode = "ChordGrid"
    /\ overflow_checks => ed.octave + step \in I8
    /\ LET new_octave == WrapI8(ed.octave + step)
       IN  EditorFrame(PointerReleased(
               Frame([ed EXCEPT !.octave = new_octave],
                     <<[type |-> "UpdateOctave", octave |-> new_octave]>>)))

\* the inversion the buttons start from
EditorCurrentInversion ==
    IF ed.inversion_chord # None
       /\ MapGet(ed.inversion_map, Unwrap(ed.inversion_chord)) # None
    THEN ed.inversion_map[Unwrap(ed.inversion_chord)]
    ELSE 0

\* mutant: the left button steps down without adding num_inversions
NewInversion_NoWrap(left, current_inversion, num_inversions) ==
    IF left
    THEN WrapU8(current_inversion - 1) % num_inversions
    ELSE WrapU8(current_inversion + 1) % num_inversions

\* new_inversion of the left and of the right button, in u8
NewInversion(left, current_inversion, num_inversions) ==
    IF left
    THEN WrapU8(WrapU8(current_inversion + num_inversions) - 1) % num_inversions
    ELSE WrapU8(current_inversion + 1) % num_inversions

\* a frame in which the left or the right inversion button is clicked
InversionButton(left) ==
    /\ ed.view_mode = "ChordGrid"
    /\ LET voicing == IF ed.inversion_chord # None
                      THEN Lookup(Unwrap(ed.inversion_chord)) ELSE None
           num_inversions == IF voicing # None
                             THEN WrapU8(Len(Unwrap(voicing).inversions)) ELSE 0
           new_inversion == NewInversion(left, EditorCurrentInversion, num_inversions)
       IN  IF voicing # None /\ num_inversions > 0
           THEN EditorFrame(PointerReleased(
                    Frame([ed EXCEPT !.inversion_map =
                               MapInsert(@, Unwrap(ed.inversion_chord), new_inversion)],
                          <<[type |-> "UpdateInversion",
                             chord_id |-> Unwrap(ed.inversion_chord),
                             inversion |-> new_inversion]>>)))
           ELSE EditorFrame(PointerReleased(Frame(ed, << >>)))

\* a frame in which the pointer button is down on a chord button of the grid
ChordButtonDown(chord_id, ctrl) ==
    /\ ed.view_mode = "ChordGrid"
    /\ HasButton(chord_id)
    /\ IF ctrl
       THEN EditorFrame(Frame([ed EXCEPT !.inversion_chord = Some(chord_id)],
                              <<[type |-> "SetInversionChord", chord_id |-> chord_id]>>))
       ELSE IF ed.playing_chord # Some(chord_id)
            THEN EditorFrame(Frame([ed EXCEPT !.playing_chord = Some(chord_id)],
                                   <<[type |-> "ChordOn", chord_id |-> chord_id]>>))
            ELSE EditorFrame(Frame(ed, << >>))

\* a frame of the chord grid view in which the pointer button is released
\* and no widget is clicked
PointerRelease ==
    /\ ed.view_mode = "ChordGrid"
    /\ EditorFrame(PointerReleased(Frame(ed, << >>)))

\* a frame in which one of the two view selectors is clicked; the view is
\* matched after the selectors, so the frame ends in the selected view
SelectView(mode) ==
    LET st == [ed EXCEPT !.view_mode = mode]
    IN  IF mode = "ChordGrid"
        THEN EditorFrame(PointerReleased(Frame(st, << >>)))
        ELSE EditorFrame(Frame(st, << >>))

\* a frame in which the "Map" button of a key is clicked
MapButton(key) ==
    /\ ed.view_mode = "KeyMapping"
    /\ ed.key_to_map = None
    /\ \E i \in DOMAIN keys_to_map : keys_to_map[i] = key
    /\ EditorFrame(Frame([ed EXCEPT !.key_to_map = Some(key)], << >>))

\* a frame in which "Cancel" is clicked
CancelButton ==
    /\ ed.view_mode = "KeyMapping"
    /\ ed.key_to_map # None
    /\ EditorFrame(Frame([ed EXCEPT !.key_to_map = None], << >>))

\* a frame in which a chord is clicked for the key that is being mapped
MapChordButton(chord_id) ==
    /\ ed.view_mode = "KeyMapping"
    /\ ed.key_to_map # None
    /\ HasButton(chord_id)
    /\ EditorFrame(Frame([ed EXCEPT !.key_mappings =
                                MapInsert(@, Unwrap(ed.key_to_map), chord_id),
                                    !.key_to_map = None],
                         <<[type |-> "UpdateKeyMapping",
                            key |-> Unwrap(ed.key_to_map),
                            chord_id |-> chord_id]>>))

EditorKeyInputs == {"Z", "X", "A"}    \* "A" is not mapped
EditorMapKeyInputs == {"X"}
EditorChordInputs == {GMaj, C13}      \* C13 has no button
EditorRootInputs == {"G"}
EditorScaleTypeInputs == {"Minor"}

NextEditor ==
    \/ \E key \in EditorKeyInputs, pressed \in BOOLEAN, repeat \in BOOLEAN :
           KeyEvent(key, pressed, repeat)
    \/ \E note \in EditorRootInputs : PickRootNote(note)
    \/ \E type \in EditorScaleTypeInputs : PickScaleType(type)
    \/ \E step \in {-1, 1} : OctaveButton(step)
    \/ \E left \in BOOLEAN : InversionButton(left)
    \/ \E chord_id \in EditorChordInputs, ctrl \in BOOLEAN :
           ChordButtonDown(chord_id, ctrl)
    \/ PointerRelease
    \/ \E mode \in {"ChordGrid", "KeyMapping"} : SelectView(mode)
    \/ \E key \in EditorMapKeyInputs : MapButton(key)
    \/ CancelButton
    \/ \E chord_id \in EditorChordInputs : MapChordButton(chord_id)
    \/ ProcessCall
    \/ Recv
    \/ ProcessReturn

SpecEditor == Init /\ [][NextEditor]_vars

----------------------------------------------------------------------------
(* SpecInversionButtons: the inversion buttons on a chord with three       *)
(* inversions and on one with none                                         *)

C7 == ChordId("C", "7")
InversionTargetInputs == {C7, BDim}

NextInversionButtons ==
    \/ \E chord_id \in InversionTargetInputs, ctrl \in BOOLEAN :
           ChordButtonDown(chord_id, ctrl)
    \/ \E left \in BOOLEAN : InversionButton(left)
    \/ PointerRelease
    \/ ProcessCall
    \/ Recv
    \/ ProcessReturn

SpecInversionButtons == Init /\ [][NextInversionButtons]_vars

----------------------------------------------------------------------------
(* SpecScales: the key mappings under every scale of the catalog *)

AllScales == {FormatScale(notes[i], t) : i \in 1 .. 12, t \in {"Major", "Minor"}}
\* an override of a default key and a mapping of a key outside the defaults
ScaleMappingInputs == {<<"Z", BDim>>, <<"A", BDim>>}

NextScales ==
    \/ \E s \in AllScales : UpdateScale(s) /\ Direct
    \/ \E kc \in ScaleMappingInputs : UpdateKeyMapping(kc[1], kc[2]) /\ Direct
    \/ \E k \in KeyInputs : KeyChordOn(k) /\ Direct
    \/ \E k \in KeyInputs : KeyChordOff(k) /\ Direct

SpecScales == Init /\ [][NextScales]_vars

----------------------------------------------------------------------------
(* SpecBadScales: UpdateScale with strings the editor's pickers never send *)

\* "", "C" and "C Major 7": not two tokens
MalformedScaleInputs ==
    {<< >>, <<"C">>, <<"C", Blank, "Major", Blank, "7">>}
\* "H Major", "C Lydian", " C Major" and "C  Minor": two tokens, no key of
\* the catalog
UnknownScaleInputs ==
    {<<"H", Blank, "Major">>, <<"C", Blank, "Lydian">>,
     <<Blank, "C", Blank, "Major">>, <<"C", Blank, Blank, "Minor">>}

NextBadScales ==
    \/ \E s \in MalformedScaleInputs \cup UnknownScaleInputs \cup ScaleInputs :
           UpdateScale(s) /\ Direct
    \/ \E c \in PinInputs \cup {CMaj} : ChordOn(c) /\ Direct
    \/ \E k \in KeyInputs : KeyChordOn(k) /\ Direct
    \/ \E k \in KeyInputs : KeyChordOff(k) /\ Direct

SpecBadScales == Init /\ [][NextBadScales]_vars

----------------------------------------------------------------------------
(* SpecInversions: one chord under every inversion index a u8 can hold *)

NextInversions ==
    \/ \E i \in U8 : UpdateInversion(CMaj, i) /\ Direct
    \/ ChordOn(CMaj) /\ Direct
    \/ KeyChordOn("Z") /\ Direct

SpecInversions == Init /\ [][NextInversions]_vars

----------------------------------------------------------------------------
(* SpecOctaves: one chord under the octaves the octave buttons reach in    *)
(* OctaveSpan clicks from the reference octave, in either direction        *)

OctaveSpan == 11
OctaveRange == (ReferenceOctave - OctaveSpan) .. (ReferenceOctave + OctaveSpan)

NextOctaves ==
    \/ \E o \in OctaveRange : UpdateOctave(o) /\ Direct
    \/ ChordOn(CMaj) /\ Direct
    \/ KeyChordOn("Z") /\ Direct
    \/ ChordOff /\ Direct

SpecOctaves == Init /\ [][NextOctaves]_vars

----------------------------------------------------------------------------
(* SpecInversionMap: two chords, each with inversion indices of its own *)

MapInversionInputs == {CMaj, GMaj} \X (1 .. MaxInversion)

NextInversionMap ==
    \/ \E ci \in MapInversionInputs : UpdateInversion(ci[1], ci[2]) /\ Direct
    \/ \E c \in {CMaj, GMaj} : ChordOn(c) /\ Direct
    \/ ChordOff /\ Direct

SpecInversionMap == Init /\ [][NextInversionMap]_vars

----------------------------------------------------------------------------
(* Vocabulary of the properties.  In Spec every step that changes the      *)
(* state folds the message that message' holds.                            *)

\* the step folds a message of this type
Folds(type) == message' # None /\ Unwrap(message').type = type
\* the message the step folds
Folded == Unwrap(message')

NoteOffsOf(sounding) == [i \in 1 .. Len(sounding) |-> NoteOff(sounding[i])]
NoteOnsOf(sounding) == [i \in 1 .. Len(sounding) |-> NoteOn(sounding[i])]

\* the chord has an entry with at least one inversion
Resolves(chord) ==
    /\ chord.root_note \in DOMAIN chord_table
    /\ chord.chord_type \in DOMAIN chord_table[chord.root_note]
    /\ chord_table[chord.root_note][chord.chord_type].inversions # << >>
\* the stored inversion index of a chord, 0 when none is stored
StoredInversion(chord) ==
    IF chord \in DOMAIN inversion_map THEN inversion_map[chord] ELSE 0
\* voicing number idx mod N of the chord, shifted by the octave oct
VoicingAt(chord, idx, oct) ==
    LET invs == chord_table[chord.root_note][chord.chord_type].inversions
        base == invs[(idx % Len(invs)) + 1]
    IN  [i \in 1 .. Len(base) |-> FinalNote(base[i], OctaveOffset(oct))]
\* what the chord sounds like in the current state: its own stored inversion
\* at the current octave, or nothing when it does not resolve
SoundOf(chord) ==
    IF Resolves(chord) THEN VoicingAt(chord, StoredInversion(chord), octave) ELSE << >>

\* note number -> number of occurrences in a note list
NoteCounts(sounding) ==
    [n \in {sounding[i] : i \in DOMAIN sounding} |->
        Cardinality({i \in DOMAIN sounding : sounding[i] = n})]

----------------------------------------------------------------------------
(* C1: a ChordOn, or a KeyChordOn of a mapped key, first emits one note-off *)
(* for every note of active_notes, in order, which leaves no note on at    *)
(* the host, and only then emits note-ons: no note-off follows a note-on   *)
(* and no note-on is sent while a note of the earlier request is on.       *)
C1_FlushBeforeNoteOn ==
    [][(Folds("ChordOn") \/ (Folds("KeyChordOn") /\ Folded.key \in DOMAIN key_mappings))
        => LET n == Len(active_notes)
           IN  /\ Len(emitted') >= n
               /\ SubSeq(emitted', 1, n) = NoteOffsOf(active_notes)
               /\ HostAfter(held, SubSeq(emitted', 1, n)) = EmptyMap
               /\ \A i \in n + 1 .. Len(emitted') : emitted'[i].kind = "NoteOn"]_vars

\* the new chord shares a note with the old one: it is switched off, then on
C1_Witness ==
    /\ message = Some([type |-> "ChordOn", chord_id |-> GMaj])
    /\ emitted = NoteOffsOf(<<60, 64, 67>>) \o NoteOnsOf(<<67, 71, 74>>)

(* C2: after every completed fold, active_notes is the note list of the    *)
(* voicing the last ChordOn or mapped KeyChordOn resolved (the chord's     *)
(* stored inversion, shifted by the octave of that moment), in voicing     *)
(* order; it is empty after ChordOff, KeyChordOff and a ChordOn that did   *)
(* not resolve; every other message leaves it as it was.                   *)
C2_SoundingIsLastVoicing ==
    [][(message' # None /\ ~panicked')
        => active_notes' =
             CASE Folded.type = "ChordOn" -> SoundOf(Folded.chord_id)
               [] Folded.type = "KeyChordOn" /\ Folded.key \in DOMAIN key_mappings
                    -> SoundOf(key_mappings[Folded.key])
               [] Folded.type \in {"ChordOff", "KeyChordOff"} -> << >>
               [] OTHER -> active_notes]_vars

\* C major, resolved one octave up, still sounds after the octave has changed
C2_Witness ==
    /\ message = Some([type |-> "UpdateOctave", octave |-> HighOctave])
    /\ active_notes = <<72, 76, 79>>

(* C3: the notes that are on at the host (note-ons without a later         *)
(* note-off, with multiplicity) are exactly active_notes, no note-off ever *)
(* reaches the host for a note that is not on, and after ChordOff or       *)
(* KeyChordOff nothing is on.                                              *)
C3_NoStuckNotes ==
    /\ held = NoteCounts(active_notes)
    /\ ~stray_off
    /\ (message # None /\ Unwrap(message).type \in {"ChordOff", "KeyChordOff"})
         => held = EmptyMap

\* a KeyChordOff that had notes to switch off
C3_Witness ==
    /\ message # None
    /\ Unwrap(message).type = "KeyChordOff"
    /\ emitted = NoteOffsOf(<<67, 71, 74>>)
    /\ held = EmptyMap

(* C4: a ChordOn(X) folded right after a ChordOn(X) emits one note-off per *)
(* note of the first activation, then one note-on per note of X's voicing, *)
(* and leaves active_notes holding X's notes once.                         *)
C4_RepeatedChordOn ==
    [][(message # None /\ message' = message /\ Unwrap(message).type = "ChordOn")
        => LET x == Unwrap(message).chord_id
           IN  /\ active_notes = SoundOf(x)
               /\ emitted' = NoteOffsOf(active_notes) \o NoteOnsOf(SoundOf(x))
               /\ active_notes' = SoundOf(x)]_vars

\* the second ChordOn(C major): three note-offs, three note-ons, three notes
C4_Witness ==
    /\ message = Some([type |-> "ChordOn", chord_id |-> CMaj])
    /\ emitted = NoteOffsOf(<<60, 64, 67>>) \o NoteOnsOf(<<60, 64, 67>>)
    /\ active_notes = <<60, 64, 67>>

C8_TriggerOnIsChordOn ==
    [][(/\ Folds("KeyChordOn")
        /\ Folded.key \in DOMAIN key_mappings
        /\ playing_key # Some(Folded.key))
        => /\ ChordOnFold(key_mappings[Folded.key])
           /\ ~panicked' => playing_key' = Some(Folded.key)]_vars

\* Z in G major, one octave up, pressed while C major's inversion 1 sounded
C8_Witness ==
    /\ message = Some([type |-> "KeyChordOn", key |-> "Z"])
    /\ playing_key = Some("Z")
    /\ playing_chord = Some(GMaj)
    /\ emitted = NoteOffsOf(<<64, 67, 72>>) \o NoteOnsOf(<<79, 83, 86>>)
    /\ active_notes = <<79, 83, 86>>

(* C9: ChordOff emits one note-off per element of active_notes and nothing *)
(* else, empties active_notes and clears playing_chord; in the idle state  *)
(* it emits nothing.                                                       *)
C9_ChordOffFlushes ==
    [][Folds("ChordOff")
        => /\ emitted' = NoteOffsOf(active_notes)
           /\ active_notes = << >> => emitted' = << >>
           /\ active_notes' = << >>
           /\ playing_chord' = None]_vars

\* a ChordOff that switched C major's inversion 1 off
C9_Witness ==
    /\ message = Some([type |-> "ChordOff"])
    /\ emitted = NoteOffsOf(<<64, 67, 72>>)
    /\ active_notes = << >>
    /\ playing_chord = None

(* C10: UpdateScale(s), for each of the 24 scales, leaves key_mappings     *)
(* with exactly the seven default keys, key number j mapped to the chord   *)
(* of degree j of s; no earlier UpdateKeyMapping entry survives, neither   *)
(* on a default key nor on another key.                                    *)
C10_ScaleSwitchResetsMapping ==
    [][(Folds("UpdateScale") /\ Folded.scale \in AllScales)
        => LET names == <<"C", "C#", "D", "D#", "E", "F", "F#", "G", "G#", "A", "A#", "B">>
               keys == <<"Z", "X", "C", "V", "B", "N", "M">>
               major == Folded.scale[3] = "Major"
               offsets == IF major THEN <<0, 2, 4, 5, 7, 9, 11>> ELSE <<0, 2, 3, 5, 7, 8, 10>>
               qualities == IF major THEN <<"maj", "m", "m", "maj", "maj", "m", "dim">>
                            ELSE <<"m", "dim", "maj", "m", "m", "maj", "maj">>
               root == CHOOSE i \in 0 .. 11 : names[i + 1] = Folded.scale[1]
           IN  /\ DOMAIN key_mappings' = {keys[j] : j \in 1 .. 7}
               /\ \A j \in 1 .. 7 :
                      key_mappings'[keys[j]] =
                          [root_note |-> names[((root + offsets[j]) % 12) + 1],
                           chord_type |-> qualities[j]]]_vars

\* A was mapped and pressed (it is still the active trigger); after the switch
\* to F# minor the mapping of A is gone and Z is back on the tonic
C10_Witness ==
    /\ message = Some([type |-> "UpdateScale", scale |-> FormatScale("F#", "Minor")])
    /\ playing_key = Some("A")
    /\ playing_chord = Some(BDim)
    /\ "A" \notin DOMAIN key_mappings
    /\ key_mappings["Z"] = ChordId("F#", "m")

(* C11: for a chord with N >= 1 inversions and any stored index i of a u8, *)
(* i >= N included, a ChordOn or mapped KeyChordOn of the chord sounds the  *)
(* inversion number r, where r is the one number of 0 .. N-1 with           *)
(* i = q * N + r; the index used is never outside 0 .. N-1.                 *)
C11_InversionWrapsAround ==
    [][\A chord \in {CMaj, GMaj} :
         ( /\ \/ Folds("ChordOn") /\ Folded.chord_id = chord
              \/ Folds("KeyChordOn") /\ MapGet(key_mappings, Folded.key) = Some(chord)
           /\ Resolves(chord)
           /\ ~panicked' )
         => LET invs == chord_table[chord.root_note][chord.chord_type].inversions
                N == Len(invs)
                i == StoredInversion(chord)
                r == CHOOSE x \in 0 .. N - 1 : \E q \in 0 .. 255 : i = q * N + x
                base == invs[r + 1]
            IN  /\ InversionIdx(i, N) \in 0 .. N - 1
                /\ Len(active_notes') = Len(base)
                /\ \A j \in 1 .. Len(base) :
                      active_notes'[j] = FinalNote(base[j], OctaveOffset(octave))]_vars

\* index 255 of C major's two inversions: 255 = 127 * 2 + 1, the second one sounds
C11_Witness ==
    /\ message = Some([type |-> "ChordOn", chord_id |-> CMaj])
    /\ MapGet(inversion_map, CMaj) = Some(255)
    /\ active_notes = <<64, 67, 72>>

\* the step plays this chord: a ChordOn of it, or a KeyChordOn of a key mapped to it
Plays(chord) ==
    \/ Folds("ChordOn") /\ Folded.chord_id = chord
    \/ Folds("KeyChordOn") /\ MapGet(key_mappings, Folded.key) = Some(chord)
\* the inversion the chord's stored index selects, as written in the chord table
BaseVoicing(chord) ==
    LET invs == chord_table[chord.root_note][chord.chord_type].inversions
    IN  invs[(StoredInversion(chord) % Len(invs)) + 1]
\* the nearest valid MIDI note number
ClampMidi(x) == IF x < 0 THEN 0 ELSE IF x > 127 THEN 127 ELSE x

(* C12: every note of a note-on and every entry of active_notes is a MIDI  *)
(* note number of 0 .. 127, at every octave; a sum of base note and octave *)
(* offset outside 0 .. 127 is clamped into the range, not wrapped.  Stated *)
(* for the octaves whose offset fits an i8, where the sum is computed      *)
(* without any overflow.                                                   *)
C12_NotesClampedToMidiRange ==
    [][(Plays(CMaj) /\ ~OctaveOffsetOverflows(octave))
        => LET base == BaseVoicing(CMaj)
           IN  /\ \A i \in DOMAIN emitted' : emitted'[i].note \in 0 .. 127
               /\ \A i \in DOMAIN active_notes' : active_notes'[i] \in 0 .. 127
               /\ active_notes' =
                    [j \in 1 .. Len(base) |->
                        ClampMidi(base[j] + (octave - 3) * 12)]]_vars

(* C13: a ChordOn or mapped KeyChordOn always completes and sounds, for    *)
(* every base note b of the voicing, the exact integer b + (octave - 3) *  *)
(* 12; the product (octave - 3) * 12 fits the 8-bit signed integer it is   *)
(* computed in, at every octave an UpdateOctave delivers.                  *)
C13_OffsetIsExact ==
    [][Plays(CMaj)
        => LET base == BaseVoicing(CMaj)
           IN  /\ ~panicked'
               /\ (octave - 3) * 12 \in -128 .. 127
               /\ OctaveOffset(octave) = (octave - 3) * 12
               /\ active_notes' =
                    [j \in 1 .. Len(base) |-> base[j] + (octave - 3) * 12]]_vars

\* the note-offs among the events of a fold
NoteOffsIn(evs) == SelectSeq(evs, LAMBDA ev : ev.kind = "NoteOff")

(* C14: an UpdateOctave(o) sets octave to o, sends no event, and leaves    *)
(* active_notes and the notes on at the host as they were; whenever notes  *)
(* are switched off, at whatever octave, the note-offs carry the numbers   *)
(* active_notes recorded when they were switched on.                       *)
C14_OctaveDoesNotRetrigger ==
    [][/\ Folds("UpdateOctave")
          => /\ octave' = Folded.octave
             /\ emitted' = << >>
             /\ UNCHANGED <<active_notes, held, playing_chord, playing_key>>
       /\ NoteOffsIn(emitted') # << >>
          => NoteOffsIn(emitted') = NoteOffsOf(active_notes)]_vars

\* C major was switched on at octave 3; after the octave went up it is switched
\* off with the numbers it was switched on with
C14_Witness ==
    /\ message = Some([type |-> "ChordOff"])
    /\ octave = DefaultOctave + 1
    /\ emitted = NoteOffsOf(<<60, 64, 67>>)

(* C15: an UpdateInversion(c, i) stores i for c, sends no event, leaves    *)
(* active_notes and the entry of every other chord as they were, and what  *)
(* a ChordOn of any other chord would sound is the same before and after.  *)
C15_InversionOfOneChord ==
    [][Folds("UpdateInversion")
        => LET c == Folded.chord_id
           IN  /\ MapGet(inversion_map', c) = Some(Folded.inversion)
               /\ DOMAIN inversion_map' = DOMAIN inversion_map \cup {c}
               /\ \A d \in DOMAIN inversion_map \ {c} :
                      inversion_map'[d] = inversion_map[d]
               /\ emitted' = << >>
               /\ UNCHANGED <<active_notes, held>>
               /\ \A d \in {CMaj, GMaj, BDim, C13} \ {c} :
                      SoundOf(d)' = SoundOf(d)]_vars

\* G major has index 1, C major (two inversions) is sounding its first one
\* and has just been given index 1
C15_Witness ==
    /\ message = Some([type |-> "UpdateInversion", chord_id |-> CMaj, inversion |-> 1])
    /\ MapGet(inversion_map, GMaj) = Some(1)
    /\ MapGet(inversion_map, CMaj) = Some(1)
    /\ active_notes = <<60, 64, 67>>

(* C16: a SetInversionChord(c) sets inversion_chord to c, sends no event,  *)
(* and leaves active_notes, playing_chord, octave, inversion_map,          *)
(* key_mappings and every other field as they were.                        *)
C16_SetInversionChordOnly ==
    [][Folds("SetInversionChord")
        => /\ inversion_chord' = Some(Folded.chord_id)
           /\ emitted' = << >>
           /\ UNCHANGED <<active_notes, playing_chord, octave, inversion_map,
                          key_mappings, playing_key, root_note, scale_type, held>>]_vars

\* C major is playing when G major becomes the inversion target
C16_Witness ==
    /\ message = Some([type |-> "SetInversionChord", chord_id |-> GMaj])
    /\ inversion_chord = Some(GMaj)
    /\ playing_chord = Some(CMaj)
    /\ active_notes = <<60, 64, 67>>

(* C17: whatever the interleaving of sends and process() calls, the       *)
(* messages received so far followed by the messages still in the channel *)
(* are the messages sent, in the order sent; every receive folds the      *)
(* received message, once: none is folded twice, none is skipped.         *)
C17_FifoAcrossThreads ==
    /\ [](sent = received \o queue)
    /\ [][received' # received
            => /\ received' = Append(received, sent[Len(received) + 1])
               /\ message' = Some(sent[Len(received) + 1])]_vars

\* two messages were folded by a call that is still running; the third was
\* sent while it ran and waits in the channel
C17_Witness ==
    /\ pc = "draining"
    /\ call.arrived = 1
    /\ received = <<[type |-> "ChordOn", chord_id |-> CMaj], [type |-> "ChordOff"]>>
    /\ queue = <<[type |-> "ChordOn", chord_id |-> CMaj]>>

(* C18: a process() call never stops partway and never waits: while it    *)
(* runs it can always either receive or return; it returns only when the  *)
(* channel is empty, having folded the messages that were queued at the   *)
(* call and those that arrived meanwhile, exactly k when k were queued    *)
(* and none arrived; a call on an empty channel folds and sends nothing.  *)
C18_DrainsAll ==
    /\ [](pc = "draining" => ENABLED (Recv \/ ProcessReturn))
    /\ [][(pc = "draining" /\ pc' = "idle")
            => /\ queue = << >>
               /\ call.folded = call.queued + call.arrived
               /\ UNCHANGED <<procVars, hostVars>>]_vars

(* C19: for each of the 12 roots and both modes the catalog holds exactly  *)
(* 7 chords, in degree order, whose roots are the pitch classes            *)
(* (root + offset) mod 12 with offsets 0,2,4,5,7,9,11 (Major) and          *)
(* 0,2,3,5,7,8,10 (Minor), whose qualities are maj,m,m,maj,maj,m,dim and   *)
(* m,dim,maj,m,m,maj,maj, and whose degree labels are I..vii and i..VII:   *)
(* whatever scale the editor is on, the chords its frame looks up are      *)
(* these.                                                                  *)
C19_CatalogPattern ==
    ed_diatonics # None
    => LET names == <<"C", "C#", "D", "D#", "E", "F", "F#", "G", "G#", "A", "A#", "B">>
           scale == Unwrap(ed_diatonics).scale
           chords == Unwrap(ed_diatonics).chords
           major == scale[3] = "Major"
           offsets == IF major THEN <<0, 2, 4, 5, 7, 9, 11>> ELSE <<0, 2, 3, 5, 7, 8, 10>>
           qualities == IF major THEN <<"maj", "m", "m", "maj", "maj", "m", "dim">>
                        ELSE <<"m", "dim", "maj", "m", "m", "maj", "maj">>
           labels == IF major THEN <<"I", "ii", "iii", "IV", "V", "vi", "vii°">>
                     ELSE <<"i", "ii°", "III", "iv", "v", "VI", "VII">>
           root == CHOOSE i \in 0 .. 11 : names[i + 1] = scale[1]
       IN  /\ scale[1] \in {names[i] : i \in 1 .. 12}
           /\ scale[3] \in {"Major", "Minor"}
           /\ DOMAIN chords = 1 .. 7
           /\ \A j \in 1 .. 7 :
                  /\ chords[j].root_note = names[((root + offsets[j]) % 12) + 1]
                  /\ chords[j].chord_type = qualities[j]
                  /\ chords[j].degree = labels[j]

\* A minor, picked in two steps: its second degree is B diminished, and the
\* seventh wraps around the octave to G
C19_Witness ==
    /\ ed_diatonics # None
    /\ Unwrap(ed_diatonics).scale = FormatScale("A", "Minor")
    /\ Unwrap(ed_diatonics).chords[2] =
           [root_note |-> "B", chord_type |-> "dim", degree |-> "ii°"]
    /\ Unwrap(ed_diatonics).chords[7].root_note = "G"

(* C20: the default mapping of each of the 24 scales has exactly the keys  *)
(* Z, X, C, V, B, N, M, and maps the j-th of them to the root and quality  *)
(* of the j-th diatonic chord of the scale: the editor's key mappings are  *)
(* that mapping for the scale it is on.                                    *)
C20_DefaultMappingOfScale ==
    LET keys == <<"Z", "X", "C", "V", "B", "N", "M">>
        scale == FormatScale(ed.root_note, ed.scale_type)
    IN  /\ scale \in DOMAIN get_scale_map
        /\ DOMAIN ed.key_mappings = {keys[j] : j \in 1 .. 7}
        /\ Cardinality(DOMAIN ed.key_mappings) = 7
        /\ \A j \in 1 .. 7 :
               /\ ed.key_mappings[keys[j]].root_note = get_scale_map[scale][j].root_note
               /\ ed.key_mappings[keys[j]].chord_type = get_scale_map[scale][j].chord_type
               /\ DOMAIN ed.key_mappings[keys[j]] = {"root_note", "chord_type"}

\* the editor is on F# minor: Z is on the tonic, M on E major
C20_Witness ==
    /\ ed.root_note = "F#"
    /\ ed.scale_type = "Minor"
    /\ ed.key_mappings["Z"] = ChordId("F#", "m")
    /\ ed.key_mappings["M"] = ChordId("E", "maj")
    /\ Len(sent) = 2

(* C21: a ChordOn, or a KeyChordOn of a mapped key, of a chord that has   *)
(* no entry in the chord table, or an entry without inversions, is not an *)
(* error: it switches off the notes that were sounding, sends no note-on, *)
(* leaves active_notes empty, records the chord as playing_chord, and     *)
(* process() goes on.                                                     *)
C21_UnresolvedChordIsSilent ==
    [][\A chord \in {CMaj, GMaj, BDim, C13} :
         (Plays(chord) /\ ~Resolves(chord))
         => /\ emitted' = NoteOffsOf(active_notes)
            /\ active_notes' = << >>
            /\ held' = EmptyMap
            /\ playing_chord' = Some(chord)
            /\ ~panicked']_vars

\* C 13 is not in the table: the ChordOn switched C major off and nothing on
C21_Witness ==
    /\ message = Some([type |-> "ChordOn", chord_id |-> C13])
    /\ emitted = NoteOffsOf(<<60, 64, 67>>)
    /\ active_notes = << >>
    /\ playing_chord = Some(C13)

(* C22: no message makes process() fail: folding any message in any       *)
(* reachable state completes, without a panic, and process() can fold the *)
(* next one.                                                              *)
C22_ProcessNeverFails == ~panicked

(* C24: the state the plugin starts in has octave 3, the reference octave *)
(* (offset 0), scale C Major, the default key mappings of C Major, no     *)
(* sounding note, no stored inversion, no playing chord, no inversion     *)
(* target and no playing key.                                             *)
C24_InitialState ==
    message = None
    => /\ octave = 3
       /\ octave = ReferenceOctave
       /\ OctaveOffset(octave) = 0
       /\ root_note = "C"
       /\ scale_type = "Major"
       /\ key_mappings = generate_default_key_mappings(get_scale_map, <<"C", " ", "Major">>)
       /\ key_mappings =
              [k \in {"Z", "X", "C", "V", "B", "N", "M"} |->
                  CASE k = "Z" -> [root_note |-> "C", chord_type |-> "maj"]
                    [] k = "X" -> [root_note |-> "D", chord_type |-> "m"]
                    [] k = "C" -> [root_note |-> "E", chord_type |-> "m"]
                    [] k = "V" -> [root_note |-> "F", chord_type |-> "maj"]
                    [] k = "B" -> [root_note |-> "G", chord_type |-> "maj"]
                    [] k = "N" -> [root_note |-> "A", chord_type |-> "m"]
                    [] k = "M" -> [root_note |-> "B", chord_type |-> "dim"]]
       /\ active_notes = << >>
       /\ inversion_map = EmptyMap
       /\ playing_chord = None
       /\ inversion_chord = None
       /\ playing_key = None

\* the state before the first message
C24_Witness ==
    /\ message = None
    /\ received = << >>
    /\ octave = 3
    /\ key_mappings["B"] = GMaj
    /\ held = EmptyMap

(* C25: an UpdateKeyMapping(t, c) maps t to c, leaves the mapping of       *)
(* every other key as it was, sends no event, and leaves active_notes,     *)
(* playing_chord and playing_key as they were: a chord that sounds from t  *)
(* keeps sounding.                                                         *)
C25_RemapOneKey ==
    [][Folds("UpdateKeyMapping")
        => LET t == Folded.key
           IN  /\ MapGet(key_mappings', t) = Some(Folded.chord_id)
               /\ DOMAIN key_mappings' = DOMAIN key_mappings \cup {t}
               /\ \A k \in DOMAIN key_mappings \ {t} : key_mappings'[k] = key_mappings[k]
               /\ emitted' = << >>
               /\ UNCHANGED <<active_notes, held, playing_chord, playing_key>>]_vars

\* Z plays C major when it is remapped to B dim: C major keeps sounding
C25_Witness ==
    /\ message = Some([type |-> "UpdateKeyMapping", key |-> "Z", chord_id |-> BDim])
    /\ playing_key = Some("Z")
    /\ playing_chord = Some(CMaj)
    /\ active_notes = <<60, 64, 67>>
    /\ key_mappings["Z"] = BDim

(* C28: a KeyChordOn of a key that has no mapping does nothing: no         *)
(* note-off, no note-on, and active_notes, playing_chord and playing_key   *)
(* stay as they were.                                                      *)
C28_UnmappedKeyIsNoOp ==
    [][(Folds("KeyChordOn") /\ Folded.key \notin DOMAIN key_mappings)
        => /\ emitted' = << >>
           /\ UNCHANGED <<active_notes, held, playing_chord, playing_key, octave,
                          inversion_chord, inversion_map, key_mappings>>]_vars

\* G major keeps sounding through the KeyChordOn of the unmapped key A
C28_Witness ==
    /\ message = Some([type |-> "KeyChordOn", key |-> "A"])
    /\ "A" \notin DOMAIN key_mappings
    /\ emitted = << >>
    /\ active_notes = <<67, 71, 74>>
    /\ playing_chord = Some(GMaj)

(* C30: whenever active_notes is not empty, playing_chord is set.          *)
C30_SoundingImpliesChord == active_notes # << >> => playing_chord # None

\* C major's second inversion sounds from key Z, and C major is the playing chord
C30_Witness ==
    /\ active_notes = <<64, 67, 72>>
    /\ playing_chord = Some(CMaj)
    /\ playing_key = Some("Z")

(* C23: from the initial state, ChordOn(C maj) sends no note-off and the   *)
(* note-ons of the first inversion of C major, with the numbers of the     *)
(* chord table; a ChordOn(G maj) after it sends a note-off for every C     *)
(* major note and then the note-ons of the first inversion of G major; a   *)
(* ChordOff after that sends a note-off for every G major note and no note *)
(* is left on.                                                             *)
C23_Scenario ==
    [][received' # received
        => LET c == chord_table["C"]["maj"].inversions[1]
               g == chord_table["G"]["maj"].inversions[1]
               OnC == [type |-> "ChordOn", chord_id |-> [root_note |-> "C", chord_type |-> "maj"]]
               OnG == [type |-> "ChordOn", chord_id |-> [root_note |-> "G", chord_type |-> "maj"]]
               Off == [type |-> "ChordOff"]
           IN  /\ received' = <<OnC>>
                  => /\ emitted' = NoteOnsOf(c)
                     /\ active_notes' = c
               /\ received' = <<OnC, OnG>>
                  => /\ emitted' = NoteOffsOf(c) \o NoteOnsOf(g)
                     /\ active_notes' = g
               /\ received' = <<OnC, OnG, Off>>
                  => /\ emitted' = NoteOffsOf(g)
                     /\ active_notes' = << >>
                     /\ held' = EmptyMap]_vars

\* the end of the scenario
C23_Witness ==
    /\ received = <<[type |-> "ChordOn", chord_id |-> CMaj],
                    [type |-> "ChordOn", chord_id |-> GMaj],
                    [type |-> "ChordOff"]>>
    /\ emitted = NoteOffsOf(<<67, 71, 74>>)
    /\ active_notes = << >>
    /\ held = EmptyMap

(* C27: if the host keeps calling process(), every message the editor     *)
(* sends is eventually received and folded; a ChordOff that was sent is    *)
(* eventually folded, and then no note is on at the host.                  *)
C27_EveryMessageIsFolded ==
    \A n \in 1 .. MaxSent :
        /\ (Len(sent) >= n) ~> (Len(received) >= n)
        /\ (Len(sent) >= n /\ sent[n].type = "ChordOff" /\ Len(received) < n)
              ~> (Len(received) = n /\ held = EmptyMap)

(* C26: whenever process() has folded every message the editor has sent,  *)
(* its octave, inversion_map, inversion_chord, key_mappings, playing_chord *)
(* and playing_key equal the editor's copy; and a step of process() never  *)
(* changes the editor's copy.                                              *)
C26_EditorCopyAgrees ==
    /\ [](queue = << >> /\ ~panicked
            => /\ octave = ed.octave
               /\ inversion_map = ed.inversion_map
               /\ inversion_chord = ed.inversion_chord
               /\ key_mappings = ed.key_mappings
               /\ playing_chord = ed.playing_chord
               /\ playing_key = ed.playing_key)
    /\ [][<<pc, received, procVars>>' # <<pc, received, procVars>> => ed' = ed]_vars

\* a key is held and its chord was stopped by a release of the pointer, after
\* three messages, all folded
C26_Witness ==
    /\ queue = << >>
    /\ Len(received) = 3
    /\ received[3].type = "ChordOff"
    /\ ed.playing_key # None
    /\ ed.playing_chord = None
    /\ playing_key = ed.playing_key

(* C29: every KeyChordOff(k) that process() folds arrives while its        *)
(* playing_key is k, and every KeyChordOn(k) it folds arrives while its    *)
(* playing_key is not k.                                                   *)
C29_KeyMessagesArriveInStep ==
    [][received' # received
        => LET m == received'[Len(received')]
           IN  /\ m.type = "KeyChordOff" => playing_key = Some(m.key)
               /\ m.type = "KeyChordOn" => playing_key # Some(m.key)]_vars

\* a second key was pressed while the first was held, then released
C29_Witness ==
    /\ Len(received) = 3
    /\ received[1].type = "KeyChordOn"
    /\ received[2].type = "KeyChordOn"
    /\ received[3].type = "KeyChordOff"
    /\ received[3].key = received[2].key
    /\ playing_key = None

(* C31: an UpdateScale whose string is not two whitespace-separated tokens *)
(* leaves root_note, scale_type and key_mappings as they were; one whose    *)
(* string has two tokens but is no scale of the catalog stores the two      *)
(* tokens as root_note and scale_type and empties key_mappings, and while   *)
(* key_mappings is empty a KeyChordOn does nothing.  In both cases no note  *)
(* event is sent and active_notes is unchanged.                             *)
C31_BadScaleStrings ==
    [][LET tokens == (<<"H", Blank, "Major">> :> <<"H", "Major">>)
                  @@ (<<"C", Blank, "Lydian">> :> <<"C", "Lydian">>)
                  @@ (<<Blank, "C", Blank, "Major">> :> <<"C", "Major">>)
                  @@ (<<"C", Blank, Blank, "Minor">> :> <<"C", "Minor">>)
        malformed == {<< >>, <<"C">>, <<"C", Blank, "Major", Blank, "7">>}
    IN     /\ (Folds("UpdateScale") /\ Folded.scale \in malformed)
               => /\ UNCHANGED <<root_note, scale_type, key_mappings>>
                  /\ emitted' = << >>
                  /\ UNCHANGED <<active_notes, held>>
           /\ (Folds("UpdateScale") /\ Folded.scale \in DOMAIN tokens)
               => /\ root_note' = tokens[Folded.scale][1]
                  /\ scale_type' = tokens[Folded.scale][2]
                  /\ key_mappings' = EmptyMap
                  /\ emitted' = << >>
                  /\ UNCHANGED <<active_notes, held>>
           /\ (Folds("KeyChordOn") /\ key_mappings = EmptyMap)
               => /\ emitted' = << >>
                  /\ UNCHANGED <<active_notes, held, playing_chord, playing_key,
                                 key_mappings>>]_vars

\* C major sounds; "H Major" has emptied the mappings and a malformed string
\* has left that as it was; the key Z then does nothing
C31_Witness ==
    /\ message = Some([type |-> "KeyChordOn", key |-> "Z"])
    /\ root_note = "H"
    /\ scale_type = "Major"
    /\ key_mappings = EmptyMap
    /\ active_notes = <<60, 64, 67>>
    /\ emitted = << >>

\* the messages the step sends
SentNow == SubSeq(sent', Len(sent) + 1, Len(sent'))
\* the number of inversions of the editor's inversion target, 0 without one
TargetInversions ==
    IF ed.inversion_chord # None /\ Lookup(Unwrap(ed.inversion_chord)) # None
    THEN Len(Unwrap(Lookup(Unwrap(ed.inversion_chord))).inversions)
    ELSE 0
\* the index the editor shows for its inversion target
TargetIndex ==
    IF ed.inversion_chord # None /\ Unwrap(ed.inversion_chord) \in DOMAIN ed.inversion_map
    THEN ed.inversion_map[Unwrap(ed.inversion_chord)]
    ELSE 0

(* C32: with an inversion target of N >= 1 inversions at index i, the      *)
(* right button sends UpdateInversion(target, (i + 1) mod N) and the left   *)
(* one UpdateInversion(target, (i + N - 1) mod N), the editor stores the    *)
(* index it sends, and the other button would then send i again; without a *)
(* target or with a target of no inversion a button sends no               *)
(* UpdateInversion; every index sent is one of 0 .. N-1.                   *)
C32_InversionButtons ==
    /\ [](\A k \in DOMAIN sent :
             sent[k].type = "UpdateInversion"
             => sent[k].inversion \in 0 .. Len(Unwrap(Lookup(sent[k].chord_id)).inversions) - 1)
    /\ [][\A left \in BOOLEAN :
             InversionButton(left)
             => LET N == TargetInversions
                    i == TargetIndex
                IN  IF N >= 1
                    THEN LET target == Unwrap(ed.inversion_chord)
                             j == IF left THEN (i + N - 1) % N ELSE (i + 1) % N
                         IN  /\ i \in 0 .. N - 1
                             /\ SentNow # << >>
                             /\ SentNow[1] = [type |-> "UpdateInversion",
                                              chord_id |-> target, inversion |-> j]
                             /\ \A k \in 2 .. Len(SentNow) :
                                    SentNow[k].type # "UpdateInversion"
                             /\ ed'.inversion_map[target] = j
                             /\ NewInversion(~left, j, N) = i
                    ELSE /\ \A k \in DOMAIN SentNow : SentNow[k].type # "UpdateInversion"
                         /\ ed'.inversion_map = ed.inversion_map]_vars

\* the left button has taken C7 from index 0 to 2, the right one back to 0,
\* and process() has stored both
C32_Witness ==
    /\ received = <<[type |-> "SetInversionChord", chord_id |-> C7],
                    [type |-> "UpdateInversion", chord_id |-> C7, inversion |-> 2],
                    [type |-> "UpdateInversion", chord_id |-> C7, inversion |-> 0]>>
    /\ ed.inversion_map[C7] = 0
    /\ inversion_map[C7] = 0

====
